---- MODULE Spec2Model ----
(***************************************************************************)
(* Model of app.py, the supply-chain fulfillment dashboard script.         *)
(*                                                                         *)
(* The script is one straight-line pipeline that Streamlit re-runs on      *)
(* every widget interaction: load_data, the left merge of production with  *)
(* delivery, the sidebar filters, the two KPI cards, the monthly trend and *)
(* the two grouped performance tables.  Each of those steps is one action; *)
(* pc names the step that runs next.                                       *)
(*                                                                         *)
(* Conventions.  A nullable cell (pandas NaN / NaT / None) is the empty    *)
(* tuple, a present cell v is <<v>>.  A rate is the pair num/den of the    *)
(* mean of a 0/1 column over its non-null cells; den = 0 is NaN.  A raw    *)
(* date cell of the CSV is <<year, month, day>> as written in the sheet    *)
(* (possibly not a calendar date) or the empty tuple for a blank cell.     *)
(* Column-name normalisation (app.py 19-20, 30-36) is not modelled: the    *)
(* feeds carry the normalised column names.  The view_mode radio only      *)
(* selects which widget is drawn and is left out.                          *)
(***************************************************************************)
EXTENDS Integers, Sequences, FiniteSets, TLC

VARIABLES
    pc,               \* the step of the script that runs next
    prod_feed,        \* rows of the production sheet (PROD_URL)
    deliv_feed,       \* rows of the delivery sheet (DELIV_URL)
    prod_df,          \* production frame returned by load_data
    deliv_df,         \* delivery frame; overwritten by the country filter
    joined_df,        \* merged frame; overwritten by the supplier filter
    supplier_filter,  \* selection of the Supplier multiselect
    country_filter,   \* selection of the Delivery Country multiselect
    prod_ot,          \* overall production on-time rate
    del_ot,           \* overall delivery on-time rate
    kpi1,             \* what the production KPI card shows
    kpi2,             \* what the delivery KPI card shows
    monthly_prod,     \* per-month production series
    monthly_del,      \* per-month delivery series
    monthly_perf,     \* the merged monthly trend table
    supplier_perf,    \* supplier performance table
    country_perf      \* delivery-country performance table

vars == <<pc, prod_feed, deliv_feed, prod_df, deliv_df, joined_df,
          supplier_filter, country_filter, prod_ot, del_ot, kpi1, kpi2,
          monthly_prod, monthly_del, monthly_perf, supplier_perf, country_perf>>

-----------------------------------------------------------------------------
(* Bounds and program constants *)

\* largest number of rows of the production sheet
MaxProd == 3

\* largest number of rows of the delivery sheet
MaxDeliv == 3

\* the year load_data keeps
TargetYear == 2025

\* PROD_SLA and DEL_SLA, in percent
PROD_SLA == 95

DEL_SLA == 95

-----------------------------------------------------------------------------
(* Nullable cells *)

Null == <<>>

Some(v) == <<v>>

IsNull(c) == c = Null

NotNull(c) == c # Null

Val(c) == c[1]

\* NaN, the mean of no values
NaN == [num |-> 0, den |-> 0]

IsNaN(r) == r.den = 0

-----------------------------------------------------------------------------
(* The sheets.  A feed is a selection of at most MaxProd (MaxDeliv) rows   *)
(* of a catalogue, in catalogue order.  The catalogues hold: references    *)
(* that match once, twice or never; a blank reference on both sides; dates *)
(* in two different months of 2025, in 2024, blank and unparsable; on-time *)
(* cells 1, 0 and blank; suppliers and country codes present and blank.    *)

ProdCatalogue ==
    << [salesorderreference |-> Some("SO1"), eventdate |-> <<2025, 1, 15>>,
        producedontime |-> Some(1)],
       [salesorderreference |-> Some("SO2"), eventdate |-> <<2025, 2, 10>>,
        producedontime |-> Some(0)],
       [salesorderreference |-> Some("SO3"), eventdate |-> <<2025, 1, 20>>,
        producedontime |-> Some(1)],
       [salesorderreference |-> Null, eventdate |-> <<2025, 3, 5>>,
        producedontime |-> Null],
       [salesorderreference |-> Some("SO1"), eventdate |-> <<2024, 6, 1>>,
        producedontime |-> Some(1)],
       [salesorderreference |-> Some("SO2"), eventdate |-> <<>>,
        producedontime |-> Some(0)] >>

DelivCatalogue ==
    << [soreference |-> Some("SO1"), supplier |-> Some("BOLT"),
        delivereddate |-> <<2025, 1, 20>>, delivered_on_time |-> Some(1),
        delivery_country_code |-> Some("US")],
       [soreference |-> Some("SO1"), supplier |-> Some("ACME"),
        delivereddate |-> <<2025, 2, 3>>, delivered_on_time |-> Some(0),
        delivery_country_code |-> Some("DE")],
       [soreference |-> Some("SO2"), supplier |-> Some("ACME"),
        delivereddate |-> <<2025, 3, 25>>, delivered_on_time |-> Some(1),
        delivery_country_code |-> Some("DE")],
       [soreference |-> Some("SO2"), supplier |-> Null,
        delivereddate |-> <<2025, 2, 10>>, delivered_on_time |-> Some(1),
        delivery_country_code |-> Null],
       [soreference |-> Null, supplier |-> Some("BOLT"),
        delivereddate |-> <<2025, 1, 14>>, delivered_on_time |-> Null,
        delivery_country_code |-> Some("FR")],
       [soreference |-> Some("SO3"), supplier |-> Some("ACME"),
        delivereddate |-> <<2024, 12, 30>>, delivered_on_time |-> Some(1),
        delivery_country_code |-> Some("US")],
       [soreference |-> Some("SO3"), supplier |-> Some("BOLT"),
        delivereddate |-> <<2025, 13, 1>>, delivered_on_time |-> Some(0),
        delivery_country_code |-> Some("DE")] >>

\* the elements of the set of indices S of catalogue cat, in catalogue order
Pick(cat, S) ==
    [p \in 1..Cardinality(S) |->
        cat[CHOOSE i \in S : Cardinality({j \in S : j < i}) = p - 1]]

Feeds(cat, max) ==
    {Pick(cat, S) : S \in {T \in SUBSET (1..Len(cat)) : Cardinality(T) <= max}}

\* the collation of the strings that occur as group keys (sorted() order)
NameOrder == <<"ACME", "BOLT", "DE", "FR", "UNKNOWN", "US">>

NameRank(s) == CHOOSE i \in 1..Len(NameOrder) : NameOrder[i] = s

-----------------------------------------------------------------------------
(* load_data *)

DaysIn(y, m) ==
    IF m = 2 THEN (IF y % 4 = 0 /\ (y % 100 # 0 \/ y % 400 = 0) THEN 29 ELSE 28)
    ELSE IF m \in {4, 6, 9, 11} THEN 30 ELSE 31

\* pd.to_datetime(errors="coerce"): a cell that is no calendar date is NaT
ToDatetime(raw) ==
    IF /\ Len(raw) = 3
       /\ raw[2] \in 1..12
       /\ raw[3] \in 1..DaysIn(raw[1], raw[2])
    THEN Some([year |-> raw[1], month |-> raw[2], day |-> raw[3]])
    ELSE Null

\* column.dt.year == y, which is False on NaT
YearIs(d, y) == NotNull(d) /\ Val(d).year = y

ParseProd(r) == [r EXCEPT !.eventdate = ToDatetime(@)]

ParseDeliv(r) ==
    [soreference |-> r.soreference, supplier |-> r.supplier,
     shipment |-> ToDatetime(r.delivereddate),
     delivered_on_time |-> r.delivered_on_time,
     delivery_country_code |-> r.delivery_country_code]

LoadProd(feed) ==
    SelectSeq([i \in 1..Len(feed) |-> ParseProd(feed[i])],
              LAMBDA r : YearIs(r.eventdate, TargetYear))

LoadDeliv(feed) ==
    SelectSeq([i \in 1..Len(feed) |-> ParseDeliv(feed[i])],
              LAMBDA r : YearIs(r.shipment, TargetYear))

-----------------------------------------------------------------------------
(* The merge of lines 51-59 *)

JoinRow(p, d) ==
    [salesorderreference |-> p.salesorderreference, eventdate |-> p.eventdate,
     producedontime |-> p.producedontime,
     soreference |-> d.soreference, supplier |-> d.supplier,
     delivered_on_time |-> d.delivered_on_time,
     delivery_country_code |-> d.delivery_country_code,
     shipment |-> d.shipment]

NullDeliv ==
    [soreference |-> Null, supplier |-> Null, delivered_on_time |-> Null,
     delivery_country_code |-> Null, shipment |-> Null]

\* the delivery rows a production row is merged with; pandas matches a
\* null key with a null key
Matches(p, deliv) ==
    SelectSeq(deliv, LAMBDA d : d.soreference = p.salesorderreference)

\* how="inner" in place of how="left": an unmatched production row is dropped
LeftRows_inner(p, deliv) ==
    [k \in 1..Len(Matches(p, deliv)) |-> JoinRow(p, Matches(p, deliv)[k])]

\* the joined rows of one production row under how="left"
LeftRows(p, deliv) ==
    IF Matches(p, deliv) = <<>> THEN <<JoinRow(p, NullDeliv)>>
    ELSE [k \in 1..Len(Matches(p, deliv)) |-> JoinRow(p, Matches(p, deliv)[k])]

RECURSIVE Merge(_, _)
Merge(prod, deliv) ==
    IF prod = <<>> THEN <<>>
    ELSE LeftRows(Head(prod), deliv) \o Merge(Tail(prod), deliv)

\* the fillna of line 59 left out
FillnaSupplier_skipped(rows) == rows

\* joined_df["supplier"].fillna("UNKNOWN")
FillnaSupplier(rows) ==
    [i \in 1..Len(rows) |->
        [rows[i] EXCEPT !.supplier = IF IsNull(@) THEN Some("UNKNOWN") ELSE @]]

-----------------------------------------------------------------------------
(* Sidebar filters, lines 64-85 *)

\* column.unique() of a column without nulls / column.dropna().unique()
Unique(rows, col) ==
    {Val(rows[i][col]) : i \in {j \in 1..Len(rows) : NotNull(rows[j][col])}}

SupplierOptions(joined) == Unique(joined, "supplier")

CountryOptions(deliv) == Unique(deliv, "delivery_country_code")

\* Series.isin(values): a null cell is in no selection
Isin(c, values) == NotNull(c) /\ Val(c) \in values

\* the supplier filter as if applied before the fillna: the rows without a
\* delivery supplier are in no selection
FilterSupplier_beforeFillna(joined, sel) ==
    SelectSeq(joined, LAMBDA r : Isin(r.supplier, sel \ {"UNKNOWN"}))

FilterSupplier(joined, sel) ==
    SelectSeq(joined, LAMBDA r : Isin(r.supplier, sel))

FilterCountry(deliv, sel) ==
    SelectSeq(deliv, LAMBDA r : Isin(r.delivery_country_code, sel))

-----------------------------------------------------------------------------
(* KPI calculations and cards, lines 90-119 *)

\* frame[col]
Column(rows, col) == [i \in 1..Len(rows) |-> rows[i][col]]

RECURSIVE SumCells(_)
SumCells(col) ==
    IF col = <<>> THEN 0
    ELSE (IF NotNull(Head(col)) THEN Val(Head(col)) ELSE 0) + SumCells(Tail(col))

\* Series.count(): the number of non-null cells
RECURSIVE CountCells(_)
CountCells(col) ==
    IF col = <<>> THEN 0
    ELSE (IF NotNull(Head(col)) THEN 1 ELSE 0) + CountCells(Tail(col))

\* a mean that counts a null cell as a 0: the sum over the number of rows
Mean_nullAsZero(col) == [num |-> SumCells(col), den |-> Len(col)]

\* Series.mean(): nulls are skipped; the mean of no values is NaN
Mean(col) == [num |-> SumCells(col), den |-> CountCells(col)]

\* n/d rounded to an integer, ties to even (n >= 0, d > 0)
RoundHalfEven(n, d) ==
    LET q == n \div d
        r == n % d
    IN  IF 2 * r < d THEN q
        ELSE IF 2 * r > d THEN q + 1
        ELSE IF q % 2 = 0 THEN q ELSE q + 1

\* f"{rate:.0%}"
FormatPercent(rate) ==
    IF IsNaN(rate) THEN "nan%"
    ELSE ToString(RoundHalfEven(100 * rate.num, rate.den)) \o "%"

\* rate >= sla, which is False on NaN
MeetsSla(rate, sla) == ~IsNaN(rate) /\ 100 * rate.num >= sla * rate.den

Metric(rate, sla) ==
    [value |-> FormatPercent(rate),
     delta_color |-> IF MeetsSla(rate, sla) THEN "normal" ELSE "inverse"]

NoMetric == [value |-> "", delta_color |-> ""]

-----------------------------------------------------------------------------
(* groupby(...).mean(), lines 127-128, 155-157 and 169-171 *)

\* the month keys of a groupby in its output order: ascending
SortedMonths(S) ==
    [p \in 1..Cardinality(S) |->
        CHOOSE k \in S : Cardinality({j \in S : j < k}) = p - 1]

\* the string keys of a groupby in its output order: ascending
SortedNames(S) ==
    [p \in 1..Cardinality(S) |->
        CHOOSE k \in S : Cardinality({j \in S : NameRank(j) < NameRank(k)}) = p - 1]

\* the rows of the group of key k; rows with a null key are in no group
Group(rows, col, k) == SelectSeq(rows, LAMBDA r : r[col] = Some(k))

\* frame["month"] = frame[datecol].dt.month
WithMonth(rows, datecol) ==
    [i \in 1..Len(rows) |->
        [c \in DOMAIN rows[i] \cup {"month"} |->
            IF c # "month" THEN rows[i][c]
            ELSE IF IsNull(rows[i][datecol]) THEN Null
            ELSE Some(Val(rows[i][datecol]).month)]]

\* frame.groupby("month")[col].mean().reset_index()
MonthlyMean(rows, col) ==
    [p \in 1..Cardinality(Unique(rows, "month")) |->
        [c \in {"month", col} |->
            IF c = "month" THEN SortedMonths(Unique(rows, "month"))[p]
            ELSE Mean(Column(Group(rows, "month",
                                   SortedMonths(Unique(rows, "month"))[p]), col))]]

\* the rows of monthly_del merged with one row of monthly_prod
MonthMatches(mp, mdel) == SelectSeq(mdel, LAMBDA md : md.month = mp.month)

\* monthly_prod.merge(monthly_del, on="month"): how defaults to "inner"
PerfRows(mp, mdel) ==
    [k \in 1..Len(MonthMatches(mp, mdel)) |->
        [month |-> mp.month,
         producedontime_prod |-> mp.producedontime,
         delivered_on_time_deliv |-> MonthMatches(mp, mdel)[k].delivered_on_time]]

RECURSIVE MonthlyPerf(_, _)
MonthlyPerf(mprod, mdel) ==
    IF mprod = <<>> THEN <<>>
    ELSE PerfRows(Head(mprod), mdel) \o MonthlyPerf(Tail(mprod), mdel)

-----------------------------------------------------------------------------
(* Performance tables, lines 155-158 and 169-172 *)

\* rate a is a number and greater than the number b
RateGt(a, b) == ~IsNaN(a) /\ ~IsNaN(b) /\ a.num * b.den > b.num * a.den

\* rate(i) >= rate(i+1) as the comparison of two floats: False if either is NaN
RateGe(a, b) == ~IsNaN(a) /\ ~IsNaN(b) /\ a.num * b.den >= b.num * a.den

\* row i goes before row j under sort_values(ascending=False): greater
\* rates first, NaN last (na_position="last"), equal rates in table order
Before(t, i, j) ==
    LET a == t[i].Delivered_On_Time
        b == t[j].Delivered_On_Time
    IN  \/ RateGt(a, b)
        \/ ~IsNaN(a) /\ IsNaN(b)
        \/ ~RateGt(b, a) /\ (IsNaN(a) <=> IsNaN(b)) /\ i < j

\* the sort_values call left out: the table stays in groupby key order
SortValuesDesc_unsorted(t) == t

SortValuesDesc(t) ==
    [p \in 1..Len(t) |->
        t[CHOOSE i \in 1..Len(t) :
            Cardinality({j \in 1..Len(t) : Before(t, j, i)}) = p - 1]]

\* frame.groupby(keycol).agg(Orders=(refcol, "count"),
\*     Delivered_On_Time=("delivered_on-time", "mean")).reset_index()
GroupAgg(rows, keycol, refcol) ==
    [p \in 1..Cardinality(Unique(rows, keycol)) |->
        [c \in {keycol, "Orders", "Delivered_On_Time"} |->
            IF c = keycol THEN SortedNames(Unique(rows, keycol))[p]
            ELSE IF c = "Orders" THEN CountCells(Column(
                Group(rows, keycol, SortedNames(Unique(rows, keycol))[p]), refcol))
            ELSE Mean(Column(
                Group(rows, keycol, SortedNames(Unique(rows, keycol))[p]),
                "delivered_on_time"))]]

SupplierPerf(joined) ==
    SortValuesDesc(GroupAgg(joined, "supplier", "salesorderreference"))

CountryPerf(deliv) ==
    SortValuesDesc(GroupAgg(deliv, "delivery_country_code", "soreference"))

-----------------------------------------------------------------------------
Init ==
    /\ pc = "load"
    /\ prod_feed \in Feeds(ProdCatalogue, MaxProd)
    /\ deliv_feed \in Feeds(DelivCatalogue, MaxDeliv)
    /\ prod_df = <<>>
    /\ deliv_df = <<>>
    /\ joined_df = <<>>
    /\ supplier_filter = {}
    /\ country_filter = {}
    /\ prod_ot = NaN
    /\ del_ot = NaN
    /\ kpi1 = NoMetric
    /\ kpi2 = NoMetric
    /\ monthly_prod = <<>>
    /\ monthly_del = <<>>
    /\ monthly_perf = <<>>
    /\ supplier_perf = <<>>
    /\ country_perf = <<>>

\* lines 14-46
LoadData ==
    /\ pc = "load"
    /\ prod_df' = LoadProd(prod_feed)
    /\ deliv_df' = LoadDeliv(deliv_feed)
    /\ pc' = "merge"
    /\ UNCHANGED <<prod_feed, deliv_feed, joined_df, supplier_filter,
                   country_filter, prod_ot, del_ot, kpi1, kpi2, monthly_prod,
                   monthly_del, monthly_perf, supplier_perf, country_perf>>

\* lines 51-59
MergeSupplier ==
    /\ pc = "merge"
    /\ joined_df' = FillnaSupplier(Merge(prod_df, deliv_df))
    /\ pc' = "sidebar"
    /\ UNCHANGED <<prod_feed, deliv_feed, prod_df, deliv_df, supplier_filter,
                   country_filter, prod_ot, del_ot, kpi1, kpi2, monthly_prod,
                   monthly_del, monthly_perf, supplier_perf, country_perf>>

\* lines 64-85: the user's selections among the options, then both filters
Sidebar ==
    /\ pc = "sidebar"
    /\ \E sf \in SUBSET SupplierOptions(joined_df),
          cf \in SUBSET CountryOptions(deliv_df) :
          /\ supplier_filter' = sf
          /\ country_filter' = cf
          /\ joined_df' = FilterSupplier(joined_df, sf)
          /\ deliv_df' = FilterCountry(deliv_df, cf)
    /\ pc' = "kpi"
    /\ UNCHANGED <<prod_feed, deliv_feed, prod_df, prod_ot, del_ot, kpi1, kpi2,
                   monthly_prod, monthly_del, monthly_perf, supplier_perf,
                   country_perf>>

\* lines 90-119
KpiCards ==
    /\ pc = "kpi"
    /\ prod_ot' = Mean(Column(joined_df, "producedontime"))
    /\ del_ot' = Mean(Column(deliv_df, "delivered_on_time"))
    /\ kpi1' = Metric(prod_ot', PROD_SLA)
    /\ kpi2' = Metric(del_ot', DEL_SLA)
    /\ pc' = "monthly"
    /\ UNCHANGED <<prod_feed, deliv_feed, prod_df, deliv_df, joined_df,
                   supplier_filter, country_filter, monthly_prod, monthly_del,
                   monthly_perf, supplier_perf, country_perf>>

\* lines 124-132: the month column is added to prod_df and to the filtered
\* deliv_df, and each series is grouped from the frame it was added to
MonthlyTrend ==
    /\ pc = "monthly"
    /\ prod_df' = WithMonth(prod_df, "eventdate")
    /\ deliv_df' = WithMonth(deliv_df, "shipment")
    /\ monthly_prod' = MonthlyMean(prod_df', "producedontime")
    /\ monthly_del' = MonthlyMean(deliv_df', "delivered_on_time")
    /\ monthly_perf' = MonthlyPerf(monthly_prod', monthly_del')
    /\ pc' = "supplier"
    /\ UNCHANGED <<prod_feed, deliv_feed, joined_df, supplier_filter,
                   country_filter, prod_ot, del_ot, kpi1, kpi2, supplier_perf,
                   country_perf>>

\* lines 155-162
SupplierPerformance ==
    /\ pc = "supplier"
    /\ supplier_perf' = SupplierPerf(joined_df)
    /\ pc' = "country"
    /\ UNCHANGED <<prod_feed, deliv_feed, prod_df, deliv_df, joined_df,
                   supplier_filter, country_filter, prod_ot, del_ot, kpi1, kpi2,
                   monthly_prod, monthly_del, monthly_perf, country_perf>>

\* lines 169-176
CountryPerformance ==
    /\ pc = "country"
    /\ country_perf' = CountryPerf(deliv_df)
    /\ pc' = "done"
    /\ UNCHANGED <<prod_feed, deliv_feed, prod_df, deliv_df, joined_df,
                   supplier_filter, country_filter, prod_ot, del_ot, kpi1, kpi2,
                   monthly_prod, monthly_del, monthly_perf, supplier_perf>>

\* a widget interaction re-runs the script from the top; within the cache
\* window load_data returns the same sheets
Rerun ==
    /\ pc = "done"
    /\ pc' = "load"
    /\ prod_df' = <<>>
    /\ deliv_df' = <<>>
    /\ joined_df' = <<>>
    /\ supplier_filter' = {}
    /\ country_filter' = {}
    /\ prod_ot' = NaN
    /\ del_ot' = NaN
    /\ kpi1' = NoMetric
    /\ kpi2' = NoMetric
    /\ monthly_prod' = <<>>
    /\ monthly_del' = <<>>
    /\ monthly_perf' = <<>>
    /\ supplier_perf' = <<>>
    /\ country_perf' = <<>>
    /\ UNCHANGED <<prod_feed, deliv_feed>>

Next ==
    \/ LoadData
    \/ MergeSupplier
    \/ Sidebar
    \/ KpiCards
    \/ MonthlyTrend
    \/ SupplierPerformance
    \/ CountryPerformance
    \/ Rerun

Spec == Init /\ [][Next]_vars

-----------------------------------------------------------------------------
(* Properties *)

\* the frames before the sidebar filters overwrite them
LoadedDeliv == LoadDeliv(deliv_feed)

UnfilteredJoined == FillnaSupplier(Merge(prod_df, LoadedDeliv))

AfterMerge == pc \notin {"load", "merge"}

AfterFilter == pc \notin {"load", "merge", "sidebar"}

AfterKpi == pc \notin {"load", "merge", "sidebar", "kpi"}

AfterMonthly == pc \in {"supplier", "country", "done"}

Indices(s) == 1..Len(s)

\* the production columns of a joined row
ProdPart(j) ==
    [salesorderreference |-> j.salesorderreference, eventdate |-> j.eventdate,
     producedontime |-> j.producedontime]

\* each order reference occurs at most once in the delivery frame
UniqueRefs(deliv) ==
    \A i, k \in Indices(deliv) : i # k => deliv[i].soreference # deliv[k].soreference

HasMatch(ref, deliv) == \E k \in Indices(deliv) : deliv[k].soreference = ref

\* C1: when every order reference occurs at most once in the delivery frame,
\* the merged frame has exactly the rows of the production frame, one joined
\* row per production row and in the same order: none dropped, none duplicated.
C1_JoinKeepsProductionRows ==
    (pc = "sidebar" /\ UniqueRefs(deliv_df)) =>
        /\ Len(joined_df) = Len(prod_df)
        /\ \A i \in Indices(joined_df) : ProdPart(joined_df[i]) = prod_df[i]

C1_Witness ==
    /\ pc = "sidebar"
    /\ UniqueRefs(deliv_df)
    /\ Len(deliv_df) >= 2
    /\ Len(prod_df) >= 2
    /\ \E i \in Indices(prod_df) : HasMatch(prod_df[i].salesorderreference, deliv_df)
    /\ \E i \in Indices(prod_df) : ~HasMatch(prod_df[i].salesorderreference, deliv_df)

\* C2: a production row whose order reference matches no delivery row kept by
\* load_data has a joined row with supplier "UNKNOWN" and null soreference,
\* delivered_on-time, delivery_country_code and shipment; and no joined row
\* has a null supplier.
C2_UnmatchedIsUnknown ==
    /\ AfterMerge =>
        \A i \in Indices(joined_df) :
            /\ NotNull(joined_df[i].supplier)
            /\ ~HasMatch(joined_df[i].salesorderreference, LoadedDeliv) =>
                /\ joined_df[i].supplier = Some("UNKNOWN")
                /\ IsNull(joined_df[i].soreference)
                /\ IsNull(joined_df[i].delivered_on_time)
                /\ IsNull(joined_df[i].delivery_country_code)
                /\ IsNull(joined_df[i].shipment)
    /\ pc = "sidebar" =>
        \A k \in Indices(prod_df) :
            ~HasMatch(prod_df[k].salesorderreference, deliv_df) =>
                \E i \in Indices(joined_df) : ProdPart(joined_df[i]) = prod_df[k]

C2_Witness ==
    /\ pc = "sidebar"
    /\ deliv_df # <<>>
    /\ \E i \in Indices(joined_df) :
        /\ ~HasMatch(joined_df[i].salesorderreference, deliv_df)
        /\ joined_df[i].supplier = Some("UNKNOWN")
    /\ \E i \in Indices(joined_df) :
        /\ HasMatch(joined_df[i].salesorderreference, deliv_df)
        /\ joined_df[i].supplier # Some("UNKNOWN")

\* C3: an empty supplier (country) selection over a frame that has rows
\* leaves no row, and the KPI card over the emptied frame shows "N/A".
C3_EmptySelectionShowsNA ==
    AfterKpi =>
        /\ (supplier_filter = {} /\ UnfilteredJoined # <<>>) =>
               (joined_df = <<>> /\ kpi1.value = "N/A")
        /\ (country_filter = {} /\ LoadedDeliv # <<>>) =>
               (deliv_df = <<>> /\ kpi2.value = "N/A")

\* the distinct suppliers present in a joined frame
SuppliersPresent(joined) == {joined[i].supplier : i \in Indices(joined)}

\* C4: with every supplier present selected (the default, "UNKNOWN"
\* included) the supplier filter returns the unfiltered joined frame: the
\* same rows in the same order.
C4_FullSupplierSelectionIsNoOp ==
    (AfterFilter
        /\ {Some(s) : s \in supplier_filter} = SuppliersPresent(UnfilteredJoined)) =>
        joined_df = UnfilteredJoined

C4_Witness ==
    /\ AfterFilter
    /\ {Some(s) : s \in supplier_filter} = SuppliersPresent(UnfilteredJoined)
    /\ "UNKNOWN" \in supplier_filter
    /\ Cardinality(supplier_filter) >= 2
    /\ Len(joined_df) >= 3

Rates(t) == [i \in Indices(t) |-> t[i].Delivered_On_Time]

\* rate(i) >= rate(i+1) for every adjacent pair
SortedDesc(rates) ==
    \A i \in 1..(Len(rates) - 1) : RateGe(rates[i], rates[i + 1])

\* rate(i) >= rate(i+1) for every adjacent pair whose second rate is defined
SortedDescNaNLast(rates) ==
    \A i \in 1..(Len(rates) - 1) :
        IsNaN(rates[i + 1]) \/ RateGe(rates[i], rates[i + 1])

\* C5 as stated: in both performance tables rate(i) >= rate(i+1) for every
\* adjacent pair of rows, the groups of undefined rate included.
C5_SortedDescEveryPair ==
    pc = "done" =>
        SortedDesc(Rates(supplier_perf)) /\ SortedDesc(Rates(country_perf))

\* C5 amended: in both performance tables the groups of undefined rate come
\* last, and for every adjacent pair of rows either rate(i+1) is undefined
\* or rate(i) >= rate(i+1).
C5_SortedDescUndefinedLast ==
    /\ pc \in {"country", "done"} => SortedDescNaNLast(Rates(supplier_perf))
    /\ pc = "done" => SortedDescNaNLast(Rates(country_perf))

C5_Witness ==
    /\ pc = "done"
    /\ Len(supplier_perf) >= 3
    /\ supplier_perf[1].supplier = "BOLT"
    /\ supplier_perf[2].supplier = "ACME"
    /\ RateGt(supplier_perf[1].Delivered_On_Time, supplier_perf[2].Delivered_On_Time)
    /\ IsNaN(supplier_perf[Len(supplier_perf)].Delivered_On_Time)
    /\ Len(country_perf) >= 2
    /\ RateGt(country_perf[1].Delivered_On_Time, country_perf[2].Delivered_On_Time)
    /\ NameRank(country_perf[1].delivery_country_code)
           > NameRank(country_perf[2].delivery_country_code)

Months(t) == {t[i].month : i \in Indices(t)}

\* C6: every month of either monthly series has a row in monthly_perf, with
\* a gap for the series that has no row in that month.
C6_MonthlyOuterAligned ==
    AfterMonthly =>
        \A m \in Months(monthly_prod) \cup Months(monthly_del) :
            \E i \in Indices(monthly_perf) :
                /\ monthly_perf[i].month = m
                /\ m \notin Months(monthly_prod) =>
                       IsNaN(monthly_perf[i].producedontime_prod)
                /\ m \notin Months(monthly_del) =>
                       IsNaN(monthly_perf[i].delivered_on_time_deliv)

\* the number of rows whose cell Col is on time / is not null
OnTimeCount(rows, col) ==
    Cardinality({i \in Indices(rows) : rows[i][col] = Some(1)})

NotNullCount(rows, col) ==
    Cardinality({i \in Indices(rows) : NotNull(rows[i][col])})

RateOf(rate, rows, col) ==
    /\ rate.num = OnTimeCount(rows, col)
    /\ rate.den = NotNullCount(rows, col)
    /\ rate.den > 0
    /\ 0 <= rate.num
    /\ rate.num <= rate.den

\* C7: over a filtered frame whose on-time column holds 0/1 values, the KPI
\* rate is the number of on-time rows over the number of non-null rows, a
\* fraction in [0,1]; for prod_ot over joined_df and del_ot over deliv_df.
C7_KpiRateIsOnTimeFraction ==
    AfterKpi =>
        /\ NotNullCount(joined_df, "producedontime") > 0 =>
               RateOf(prod_ot, joined_df, "producedontime")
        /\ NotNullCount(deliv_df, "delivered_on_time") > 0 =>
               RateOf(del_ot, deliv_df, "delivered_on_time")

C7_Witness ==
    /\ AfterKpi
    /\ NotNullCount(deliv_df, "delivered_on_time") > 0
    /\ NotNullCount(deliv_df, "delivered_on_time") < Len(deliv_df)
    /\ 0 < del_ot.num
    /\ del_ot.num < del_ot.den
    /\ NotNullCount(joined_df, "producedontime") > 0
    /\ NotNullCount(joined_df, "producedontime") < Len(joined_df)

\* the sheet has rows and every one of them is dated in year y
AllDated(feed, col, y) ==
    /\ feed # <<>>
    /\ \A i \in Indices(feed) : Len(feed[i][col]) = 3 /\ feed[i][col][1] = y

\* C8: load_data returns only rows dated in 2025, an unparsable date being
\* coerced to missing; so when every row of both sheets is dated 2024 both
\* frames are empty, both KPI cards show "N/A" and the monthly trend is empty.
C8_TargetYearOnly ==
    pc = "done" =>
        /\ \A i \in Indices(prod_df) : YearIs(prod_df[i].eventdate, TargetYear)
        /\ \A i \in Indices(LoadedDeliv) : YearIs(LoadedDeliv[i].shipment, TargetYear)
        /\ (/\ AllDated(prod_feed, "eventdate", TargetYear - 1)
            /\ AllDated(deliv_feed, "delivereddate", TargetYear - 1)) =>
               /\ prod_df = <<>>
               /\ LoadedDeliv = <<>>
               /\ kpi1.value = "N/A"
               /\ kpi2.value = "N/A"
               /\ monthly_perf = <<>>

\* the months of the rows of a frame / its rows of month m, by date column
MonthsOf(rows, datecol) ==
    {Val(rows[i][datecol]).month : i \in {j \in Indices(rows) : NotNull(rows[j][datecol])}}

InMonth(rows, datecol, m) ==
    SelectSeq(rows, LAMBDA r : NotNull(r[datecol]) /\ Val(r[datecol]).month = m)

\* C9: the monthly production series is the per-month mean over the rows
\* that survive the supplier filter and the monthly delivery series the
\* per-month mean over the rows that survive the country filter: the row
\* sets of prod_ot and del_ot.
C9_MonthlyOverFilteredRows ==
    AfterMonthly =>
        /\ Months(monthly_prod) = MonthsOf(joined_df, "eventdate")
        /\ \A i \in Indices(monthly_prod) :
            LET rows == InMonth(joined_df, "eventdate", monthly_prod[i].month)
            IN  /\ monthly_prod[i].producedontime.num = OnTimeCount(rows, "producedontime")
                /\ monthly_prod[i].producedontime.den = NotNullCount(rows, "producedontime")
        /\ Months(monthly_del) = MonthsOf(deliv_df, "shipment")
        /\ \A i \in Indices(monthly_del) :
            LET rows == InMonth(deliv_df, "shipment", monthly_del[i].month)
            IN  /\ monthly_del[i].delivered_on_time.num =
                       OnTimeCount(rows, "delivered_on_time")
                /\ monthly_del[i].delivered_on_time.den =
                       NotNullCount(rows, "delivered_on_time")

\* frame a has the rows of frame b, in order, on the columns of b
SameRows(a, b) ==
    /\ Len(a) = Len(b)
    /\ \A i \in Indices(b) : \A c \in DOMAIN b[i] : a[i][c] = b[i][c]

\* C10: with every country code present selected (the default) the country
\* filter keeps every delivery row load_data returned, the rows with a null
\* country code included.
C10_FullCountrySelectionIsNoOp ==
    (AfterFilter /\ country_filter = CountryOptions(LoadedDeliv)) =>
        SameRows(deliv_df, LoadedDeliv)

====
